---- MODULE Spec2Model ----
(***************************************************************************)
(* Model of custom_components/asana/sensor.py: the Asana task sensor.      *)
(*                                                                         *)
(* Python strings are sequences of one-character strings, so that          *)
(* lower(), split('_'), the substring test, the regular expression, the    *)
(* [0:10] slice, str.format and the lexical comparison of date keys are    *)
(* computed character by character, as the interpreter computes them.      *)
(* None is the empty string where the code only tests truthiness, and a    *)
(* tagged value elsewhere.                                                 *)
(***************************************************************************)
EXTENDS Integers, Sequences, FiniteSets, Bags, TLC

VARIABLES
    pc,                     \* "new" | "idle" | "fetching" | "raised"
    config,                 \* config.get(CONF_MONITORED_VARIABLES)
    state_attribute_name,   \* self._state_attribute_name
    monitored_variables,    \* self._monitored_variables (insertion ordered)
    since_days_ago,         \* self._api._since_days_ago
    task_data,              \* self._task_data
    attributes,             \* self._attributes
    state,                  \* self._state
    stored,                 \* the list _store_task_data was last called with
    log,                    \* what logging.error was called with
    clock,                  \* the day datetime.date.today() returns
    today,                  \* 'today' as read by the last evaluation
    api_url,                \* get_api_data: api_url
    tasks_data,             \* get_api_data / update: tasks_data
    responses               \* the response_data values of the current fetch

vars == <<pc, config, state_attribute_name, monitored_variables,
          since_days_ago, task_data, stored, attributes, state, log, clock,
          today, api_url, tasks_data, responses>>

(***************************************************************************)
(* Bounds of the model.                                                    *)
(***************************************************************************)
MaxVars  == 2   \* names in the monitored-variables list
MaxPages == 2   \* pages the server serves for one fetch
MaxLog   == 4   \* logged errors kept

(***************************************************************************)
(* Strings.                                                                *)
(***************************************************************************)
\* The characters in use, in code point order.
CharOrder ==
    << " ", "-", ".", "0", "1", "2", "3", "4", "5", "6", "7", "8", "9", ":",
       "A", "B", "C", "D", "E", "F", "G", "H", "I", "J", "K", "L", "M",
       "N", "O", "P", "Q", "R", "S", "T", "U", "V", "W", "X", "Y", "Z",
       "_",
       "a", "b", "c", "d", "e", "f", "g", "h", "i", "j", "k", "l", "m",
       "n", "o", "p", "q", "r", "s", "t", "u", "v", "w", "x", "y", "z" >>

Ord(c) == CHOOSE i \in 1..Len(CharOrder) : CharOrder[i] = c

UpperCase == << "A", "B", "C", "D", "E", "F", "G", "H", "I", "J", "K", "L", "M",
                "N", "O", "P", "Q", "R", "S", "T", "U", "V", "W", "X", "Y", "Z" >>
LowerCase == << "a", "b", "c", "d", "e", "f", "g", "h", "i", "j", "k", "l", "m",
                "n", "o", "p", "q", "r", "s", "t", "u", "v", "w", "x", "y", "z" >>
Digits    == << "0", "1", "2", "3", "4", "5", "6", "7", "8", "9" >>

IsDigit(c) == \E i \in 1..Len(Digits) : Digits[i] = c
DigitValue(c) == (CHOOSE i \in 1..Len(Digits) : Digits[i] = c) - 1

\* str.lower()
LowerChar(c) ==
    IF \E i \in 1..Len(UpperCase) : UpperCase[i] = c
    THEN LowerCase[CHOOSE i \in 1..Len(UpperCase) : UpperCase[i] = c]
    ELSE c
Lower(s) == [i \in 1..Len(s) |-> LowerChar(s[i])]

\* a < b and a <= b on str: code point by code point, a proper prefix first.
RECURSIVE StrLess(_, _)
StrLess(a, b) ==
    IF b = <<>> THEN FALSE
    ELSE IF a = <<>> THEN TRUE
    ELSE IF Ord(a[1]) # Ord(b[1]) THEN Ord(a[1]) < Ord(b[1])
    ELSE StrLess(Tail(a), Tail(b))
StrLeq(a, b) == a = b \/ StrLess(a, b)
StrGeq(a, b) == ~StrLess(a, b)

\* s[lo:hi] with 0 <= lo <= hi (Python slice, clipped to the string)
Slice(s, lo, hi) ==
    SubSeq(s, lo + 1, IF hi < Len(s) THEN hi ELSE Len(s))

StartsWithAt(s, i, sub) ==
    /\ i + Len(sub) - 1 <= Len(s)
    /\ \A k \in 1..Len(sub) : s[i + k - 1] = sub[k]

\* sub in s
Contains(s, sub) == \E i \in 1..(Len(s) + 1) : StartsWithAt(s, i, sub)

\* s.split('_')
RECURSIVE Split(_)
Split(s) ==
    IF \A i \in 1..Len(s) : s[i] # "_" THEN << s >>
    ELSE LET i == CHOOSE j \in 1..Len(s) :
                      s[j] = "_" /\ \A k \in 1..(j - 1) : s[k] # "_"
         IN  << SubSeq(s, 1, i - 1) >> \o Split(SubSeq(s, i + 1, Len(s)))

\* int(s) on a string of decimal digits
RECURSIVE ParseInt(_)
ParseInt(s) ==
    IF s = <<>> THEN 0
    ELSE 10 * ParseInt(SubSeq(s, 1, Len(s) - 1)) + DigitValue(s[Len(s)])

(***************************************************************************)
(* Module constants.                                                       *)
(***************************************************************************)
_ASANA_TIMEFRAME_COMPLETED     == << "p", "a", "s", "t" >>
_ASANA_TIMEFRAME_NOT_COMPLETED == << "f", "u", "t", "u", "r", "e" >>
_ASANA_TIMEFRAMES ==
    { _ASANA_TIMEFRAME_COMPLETED, _ASANA_TIMEFRAME_NOT_COMPLETED }

_ASANA_SENSOR_TYPE_COUNTER == << "c", "o", "u", "n", "t", "e", "r" >>
_ASANA_SENSOR_TYPE_LIST    == << "l", "i", "s", "t" >>
_ASANA_SENSOR_TASK_TYPES ==
    { _ASANA_SENSOR_TYPE_COUNTER, _ASANA_SENSOR_TYPE_LIST }

_ASANA_TASK_DATE_ALL == << "a", "l", "l" >>

\* None where the code only tests a string for truthiness or for None and
\* no real value is the empty string.
NoString == << >>

(***************************************************************************)
(* Values of mixed Python type: None, an int, a list of str, a str.        *)
(***************************************************************************)
PyNone      == [kind |-> "none", n |-> 0, items |-> << >>]
PyInt(i)    == [kind |-> "int",  n |-> i, items |-> << >>]
PyList(l)   == [kind |-> "list", n |-> 0, items |-> l]
PyStr(s)    == [kind |-> "str",  n |-> 0, items |-> << s >>]

\* The task_date of a rule: 'all' or an int.
DaysAll     == [all |-> TRUE,  days |-> 0]
DaysInt(i)  == [all |-> FALSE, days |-> i]
DaysNone    == [all |-> FALSE, days |-> -1]

(***************************************************************************)
(* AsanaTaskSensor._get_days_from_monitored_variable                       *)
(***************************************************************************)
\* The length of the run of digits of s that starts at position i.
RECURSIVE DigitRun(_, _)
DigitRun(s, i) ==
    IF i <= Len(s) /\ IsDigit(s[i]) THEN 1 + DigitRun(s, i + 1) ELSE 0

\* re.search(r'(?:_)([\d]+)(?:day)', s, re.IGNORECASE) matches at i: an
\* underscore, one or more digits (the whole run: 'd' is no digit), 'day'.
DayMatchAt(s, i) ==
    /\ i <= Len(s)
    /\ s[i] = "_"
    /\ DigitRun(s, i + 1) >= 1
    /\ StartsWithAt(Lower(s), i + 1 + DigitRun(s, i + 1), << "d", "a", "y" >>)

GetDaysFromMonitoredVariable(monitored_variable) ==
    IF Contains(monitored_variable, _ASANA_TASK_DATE_ALL) THEN DaysAll
    ELSE IF ~\E i \in 1..Len(monitored_variable) :
                 DayMatchAt(monitored_variable, i)
    THEN DaysNone
    ELSE LET i == CHOOSE j \in 1..Len(monitored_variable) :
                      /\ DayMatchAt(monitored_variable, j)
                      /\ \A k \in 1..(j - 1) : ~DayMatchAt(monitored_variable, k)
         IN  DaysInt(ParseInt(SubSeq(monitored_variable, i + 1,
                                     i + DigitRun(monitored_variable, i + 1))))

(***************************************************************************)
(* AsanaTaskSensor._process_monitored_variables                            *)
(***************************************************************************)
IndexOfName(mv, name) ==
    IF \E i \in 1..Len(mv) : mv[i].name = name
    THEN CHOOSE i \in 1..Len(mv) : mv[i].name = name
    ELSE 0

\* d[key] = value on an insertion-ordered dict: a key already present keeps
\* its place.
DictSet(mv, rule) ==
    IF IndexOfName(mv, rule.name) = 0 THEN Append(mv, rule)
    ELSE [mv EXCEPT ![IndexOfName(mv, rule.name)] = rule]

LogEntry(msg, arg) == [msg |-> msg, arg |-> arg]

\* The state attribute re-selected by every accepted rule.
SelectStateAttributeAlways(current, variable) == variable

\* self._state_attribute_name after the 'is None' test of an accepted rule.
SelectStateAttribute(current, variable) ==
    IF current = NoString THEN variable ELSE current

\* One iteration of the loop over the names, on the accumulated
\* [vars, san, log, raised].
ProcessOne(acc, raw) ==
    LET variable          == Lower(raw)
        variable_parts    == Split(variable)
        variable_type     == variable_parts[1]
        variable_timeframe == variable_parts[2]
        variable_days     == GetDaysFromMonitoredVariable(variable)
    IN  IF acc.raised THEN acc
        ELSE IF Len(variable_parts) # 3
        THEN [acc EXCEPT !.raised = TRUE]       \* ValueError on unpacking
        ELSE IF variable_days = DaysNone
        THEN [acc EXCEPT !.log = Append(@, LogEntry(
                 "Invalid date range in monitored variables", variable))]
        ELSE IF variable_type \notin _ASANA_SENSOR_TASK_TYPES
        THEN [acc EXCEPT !.log = Append(@, LogEntry(
                 "Invalid attribute type in monitored variables", variable))]
        ELSE IF variable_timeframe \notin _ASANA_TIMEFRAMES
        THEN [acc EXCEPT !.log = Append(@, LogEntry(
                 "Invalid timeframe in monitored variables", variable))]
        ELSE [acc EXCEPT
                 !.san  = SelectStateAttribute(@, variable),
                 !.vars = DictSet(@, [name       |-> variable,
                                      sensor_type |-> variable_type,
                                      timeframe  |-> variable_timeframe,
                                      task_date  |-> variable_days])]

RECURSIVE ProcessMonitoredVariables(_)
ProcessMonitoredVariables(names) ==
    IF names = << >>
    THEN [vars |-> << >>, san |-> NoString, log |-> << >>, raised |-> FALSE]
    ELSE ProcessOne(ProcessMonitoredVariables(SubSeq(names, 1, Len(names) - 1)),
                    names[Len(names)])

(***************************************************************************)
(* AsanaTaskSensor._get_max_since_days_ago                                 *)
(***************************************************************************)
MaxOf(a, b) == IF a >= b THEN a ELSE b

\* A maximum that future rules take part in.
ExtendsFetchAnyTimeframe(variable_config) == ~variable_config.task_date.all

\* Whether a rule takes part in the maximum.
ExtendsFetch(variable_config) ==
    /\ variable_config.timeframe # _ASANA_TIMEFRAME_NOT_COMPLETED
    /\ ~variable_config.task_date.all

RECURSIVE GetMaxSinceDaysAgo(_)
GetMaxSinceDaysAgo(mv) ==
    IF mv = << >> THEN 0
    ELSE LET rest == GetMaxSinceDaysAgo(SubSeq(mv, 1, Len(mv) - 1))
             last == mv[Len(mv)]
         IN  IF ExtendsFetch(last) THEN MaxOf(last.task_date.days, rest)
             ELSE rest

(***************************************************************************)
(* datetime: a date is its day number since 1970-01-01.                    *)
(***************************************************************************)
\* date.strftime('%Y-%m-%d'): the proleptic Gregorian calendar.
CivilFromDays(days) ==
    LET z   == days + 719468
        era == z \div 146097
        doe == z - era * 146097
        yoe == (doe - doe \div 1460 + doe \div 36524 - doe \div 146096) \div 365
        doy == doe - (365 * yoe + yoe \div 4 - yoe \div 100)
        mp  == (5 * doy + 2) \div 153
        d   == doy - (153 * mp + 2) \div 5 + 1
        m   == IF mp < 10 THEN mp + 3 ELSE mp - 9
        y   == yoe + era * 400 + (IF m <= 2 THEN 1 ELSE 0)
    IN  [year |-> y, month |-> m, day |-> d]

DigitChar(n) == Digits[n + 1]

TwoDigits(n) == << DigitChar(n \div 10), DigitChar(n % 10) >>

FourDigits(n) ==
    << DigitChar(n \div 1000), DigitChar((n \div 100) % 10),
       DigitChar((n \div 10) % 10), DigitChar(n % 10) >>

Strftime(days) ==
    LET c == CivilFromDays(days)
    IN  FourDigits(c.year) \o << "-" >> \o TwoDigits(c.month)
            \o << "-" >> \o TwoDigits(c.day)

(***************************************************************************)
(* AsanaTaskApi._get_since_date                                            *)
(***************************************************************************)
GetSinceDate(day, days_ago) == Strftime(day - days_ago)

(***************************************************************************)
(* AsanaTaskSensor._task_day_matches_timeframe                             *)
(***************************************************************************)
\* A past filter without the test of the 'all' key.
TaskDayMatchesPastAllKey(task_day, variable_timeframe, variable_date) ==
    IF variable_timeframe = _ASANA_TIMEFRAME_COMPLETED
    THEN StrGeq(task_day, variable_date)
    ELSE IF variable_timeframe = _ASANA_TIMEFRAME_NOT_COMPLETED
    THEN IF variable_date = _ASANA_TASK_DATE_ALL THEN TRUE
         ELSE StrLeq(task_day, variable_date)
    ELSE FALSE

\* A future filter that takes a task without due date as always due.
TaskDayMatchesFutureAllKey(task_day, variable_timeframe, variable_date) ==
    IF variable_timeframe = _ASANA_TIMEFRAME_COMPLETED
    THEN IF task_day = _ASANA_TASK_DATE_ALL THEN FALSE
         ELSE StrGeq(task_day, variable_date)
    ELSE IF variable_timeframe = _ASANA_TIMEFRAME_NOT_COMPLETED
    THEN IF variable_date = _ASANA_TASK_DATE_ALL
            \/ task_day = _ASANA_TASK_DATE_ALL THEN TRUE
         ELSE StrLeq(task_day, variable_date)
    ELSE FALSE

TaskDayMatchesTimeframe(task_day, variable_timeframe, variable_date) ==
    IF variable_timeframe = _ASANA_TIMEFRAME_COMPLETED
    THEN IF task_day = _ASANA_TASK_DATE_ALL THEN FALSE
         ELSE StrGeq(task_day, variable_date)
    ELSE IF variable_timeframe = _ASANA_TIMEFRAME_NOT_COMPLETED
    THEN IF variable_date = _ASANA_TASK_DATE_ALL THEN TRUE
         ELSE StrLeq(task_day, variable_date)
    ELSE FALSE

(***************************************************************************)
(* AsanaTaskSensor._store_task_data                                        *)
(***************************************************************************)
\* The timeframe a task is stored under.
TaskGroup(task) ==
    IF task.completed THEN _ASANA_TIMEFRAME_COMPLETED
    ELSE _ASANA_TIMEFRAME_NOT_COMPLETED

\* The date key a task is stored under.
TaskDate(task) ==
    IF task.completed
    THEN IF task.completed_at # NoString THEN Slice(task.completed_at, 0, 10)
         ELSE _ASANA_TASK_DATE_ALL
    ELSE IF task.due_on # NoString THEN Slice(task.due_on, 0, 10)
         ELSE _ASANA_TASK_DATE_ALL

\* The display string of a task.
TaskName(task) ==
    IF TaskDate(task) = _ASANA_TASK_DATE_ALL THEN task.name
    ELSE TaskDate(task) \o << " ", "-", " " >> \o task.name

\* dict[key].append(value), the key created on first use.
BucketAppend(bucket, key, value) ==
    [k \in DOMAIN bucket \cup {key} |->
        IF k = key
        THEN (IF key \in DOMAIN bucket THEN bucket[key] ELSE << >>) \o << value >>
        ELSE bucket[k]]

EmptyDict == [k \in {} |-> << >>]

EmptyTaskData == [t \in _ASANA_TIMEFRAMES |-> EmptyDict]

StoreOne(data, task) ==
    [data EXCEPT ![TaskGroup(task)] =
        BucketAppend(@, TaskDate(task), TaskName(task))]

\* The loop over the tasks, on the structure built so far.
RECURSIVE StoreInto(_, _)
StoreInto(data, tasks) ==
    IF tasks = << >> THEN data
    ELSE StoreOne(StoreInto(data, SubSeq(tasks, 1, Len(tasks) - 1)),
                  tasks[Len(tasks)])

\* A structure that keeps what the previous cycle stored.
FreshTaskDataKeepsOld(old) ==
    IF DOMAIN old = {} THEN EmptyTaskData ELSE old

\* The structure the loop starts from: both timeframes, no dates, whatever
\* self._task_data held.
FreshTaskData(old) == EmptyTaskData

StoreTaskData(old, tasks) == StoreInto(FreshTaskData(old), tasks)

(***************************************************************************)
(* AsanaTaskSensor._update_sensor_attributes                               *)
(***************************************************************************)
\* sorted(keys)
RECURSIVE Sorted(_)
Sorted(keys) ==
    IF keys = {} THEN << >>
    ELSE LET least == CHOOSE k \in keys : \A o \in keys : StrLeq(k, o)
         IN  << least >> \o Sorted(keys \ {least})

\* The boundary a rule is evaluated against.
VariableDate(variable_config, day) ==
    IF variable_config.task_date.all THEN _ASANA_TASK_DATE_ALL
    ELSE IF variable_config.timeframe = _ASANA_TIMEFRAME_COMPLETED
    THEN Strftime(day - variable_config.task_date.days)
    ELSE Strftime(day + variable_config.task_date.days)

RECURSIVE MatchingOver(_, _, _, _)
MatchingOver(days, selected_tasks_data, variable_timeframe, variable_date) ==
    IF days = << >> THEN << >>
    ELSE (IF TaskDayMatchesTimeframe(Head(days), variable_timeframe, variable_date)
          THEN selected_tasks_data[Head(days)] ELSE << >>)
         \o MatchingOver(Tail(days), selected_tasks_data,
                         variable_timeframe, variable_date)

MatchingTaskList(data, variable_config, day) ==
    LET selected_tasks_data ==
            IF variable_config.timeframe \in DOMAIN data
            THEN data[variable_config.timeframe] ELSE EmptyDict
    IN  MatchingOver(Sorted(DOMAIN selected_tasks_data), selected_tasks_data,
                     variable_config.timeframe,
                     VariableDate(variable_config, day))

\* The value stored for a rule.
AttributeValue(data, variable_config, day) ==
    IF variable_config.sensor_type = _ASANA_SENSOR_TYPE_LIST
    THEN PyList(MatchingTaskList(data, variable_config, day))
    ELSE PyInt(Len(MatchingTaskList(data, variable_config, day)))

VariableNames(mv) == { mv[i].name : i \in 1..Len(mv) }

UpdateSensorAttributes(attrs, mv, data, day) ==
    [name \in DOMAIN attrs \cup VariableNames(mv) |->
        IF name \in VariableNames(mv)
        THEN AttributeValue(data, mv[IndexOfName(mv, name)], day)
        ELSE attrs[name]]

(***************************************************************************)
(* AsanaTaskSensor._update_sensor_state                                    *)
(***************************************************************************)
UpdateSensorState(attrs, name) ==
    IF name # NoString THEN attrs[name] ELSE PyStr(<< "O", "K" >>)

(***************************************************************************)
(* Inputs: monitored-variable names, tasks, pages, days.                   *)
(***************************************************************************)
\* "counter_past_1day": a bounded past counter
N_counter_past_1day ==
    << "c", "o", "u", "n", "t", "e", "r", "_", "p", "a", "s", "t", "_", "1", "d", "a", "y" >>
\* "LIST_PAST_2DAY": a bounded past list, in upper case
N_LIST_PAST_2DAY ==
    << "L", "I", "S", "T", "_", "P", "A", "S", "T", "_", "2", "D", "A", "Y" >>
\* "list_past_all": an unbounded past list
N_list_past_all ==
    << "l", "i", "s", "t", "_", "p", "a", "s", "t", "_", "a", "l", "l" >>
\* "counter_future_allday": an unbounded future counter
N_counter_future_allday ==
    << "c", "o", "u", "n", "t", "e", "r", "_", "f", "u", "t", "u", "r", "e", "_", "a", "l", "l", "d", "a", "y" >>
\* "list_future_1day": a bounded future list
N_list_future_1day ==
    << "l", "i", "s", "t", "_", "f", "u", "t", "u", "r", "e", "_", "1", "d", "a", "y" >>
\* "list_future_3day": a bounded future list with the longest horizon
N_list_future_3day ==
    << "l", "i", "s", "t", "_", "f", "u", "t", "u", "r", "e", "_", "3", "d", "a", "y" >>
\* "gauge_past_1day": no such sensor type
N_gauge_past_1day ==
    << "g", "a", "u", "g", "e", "_", "p", "a", "s", "t", "_", "1", "d", "a", "y" >>
\* "counter_soon_1day": no such timeframe
N_counter_soon_1day ==
    << "c", "o", "u", "n", "t", "e", "r", "_", "s", "o", "o", "n", "_", "1", "d", "a", "y" >>
\* "list_future_week": no horizon
N_list_future_week ==
    << "l", "i", "s", "t", "_", "f", "u", "t", "u", "r", "e", "_", "w", "e", "e", "k" >>
\* "counter_past": two tokens
N_counter_past ==
    << "c", "o", "u", "n", "t", "e", "r", "_", "p", "a", "s", "t" >>
\* "counter_past_1_day": four tokens
N_counter_past_1_day ==
    << "c", "o", "u", "n", "t", "e", "r", "_", "p", "a", "s", "t", "_", "1", "_", "d", "a", "y" >>

\* The names the parser is run on.
ParseNames ==
    { N_counter_past_1day, N_LIST_PAST_2DAY, N_list_past_all,
      N_counter_future_allday, N_list_future_3day, N_gauge_past_1day,
      N_counter_soon_1day, N_list_future_week, N_counter_past,
      N_counter_past_1_day }

RECURSIVE SeqsUpTo(_, _)
SeqsUpTo(S, n) ==
    IF n = 0 THEN { << >> }
    ELSE LET shorter == SeqsUpTo(S, n - 1)
         IN  shorter \cup { Append(q, x) : q \in shorter, x \in S }

ParseConfigs == SeqsUpTo(ParseNames, MaxVars)

\* The monitored-variable lists the sensor is run with.
Configs ==
    { << >>,
      << N_gauge_past_1day >>,
      << N_counter_past >>,
      << N_gauge_past_1day, N_counter_past_1day, N_list_future_1day >>,
      << N_counter_past_1day, N_LIST_PAST_2DAY >>,
      << N_LIST_PAST_2DAY, N_counter_past_1day, N_LIST_PAST_2DAY >>,
      << N_list_past_all, N_counter_future_allday >>,
      << N_counter_future_allday, N_list_future_1day >>,
      << N_list_future_1day, N_list_future_3day, N_list_past_all >> }

Task(name, completed, completed_at, due_on) ==
    [name |-> name, completed |-> completed,
     completed_at |-> completed_at, due_on |-> due_on]

\* Completed on 2023-12-30, with a due date the bucketing must ignore.
TaskA == Task(<< "A" >>, TRUE,
              << "2", "0", "2", "3", "-", "1", "2", "-", "3", "0", "T", "0", "9", ":", "3", "0", ":", "0", "0", ".", "0", "0", "0", "Z" >>,
              << "2", "0", "2", "4", "-", "0", "1", "-", "0", "5" >>)
\* Marked complete, no completion timestamp.
TaskB == Task(<< "B" >>, TRUE, NoString, NoString)
\* Incomplete, due on 2024-01-02.
TaskC == Task(<< "C" >>, FALSE, NoString,
              << "2", "0", "2", "4", "-", "0", "1", "-", "0", "2" >>)
\* Incomplete, no due date.
TaskD == Task(<< "D" >>, FALSE, NoString, NoString)

\* The 'data' lists a page can carry.
Pages == { << >>, << TaskA, TaskD >>, << TaskC >>, << TaskB >> }

\* 2023-12-31 and 2024-01-01, as day numbers.
Days == { 19722, 19723 }

\* response.json(): {} | a body without 'data' | a page with or without
\* next_page.
Response(kind, data, next) == [kind |-> kind, data |-> data, next |-> next]

BadResponses ==
    { Response("empty", << >>, FALSE), Response("nodata", << >>, FALSE) }

\* api_url: None, or the endpoint with its completed_since and the page.
NoUrl == [since |-> NoString, page |-> 0]

\* tasks_data: None or a list.
NoData      == [none |-> TRUE,  data |-> << >>]
Data(tasks) == [none |-> FALSE, data |-> tasks]

(***************************************************************************)
(* State before construction: a configuration and a clock.                 *)
(***************************************************************************)
Blank(cfgs) ==
    /\ pc = "new"
    /\ config \in cfgs
    /\ clock \in Days /\ clock - 1 \notin Days
    /\ state_attribute_name = NoString
    /\ monitored_variables = << >>
    /\ since_days_ago = 0
    /\ task_data = EmptyDict
    /\ stored = << >>
    /\ attributes = EmptyDict
    /\ state = PyNone
    /\ log = << >>
    /\ today = 0
    /\ api_url = NoUrl
    /\ tasks_data = NoData
    /\ responses = << >>

Init == Blank(Configs)

(***************************************************************************)
(* AsanaTaskSensor.__init__                                                *)
(***************************************************************************)
Construct ==
    /\ pc = "new"
    /\ LET parsed == ProcessMonitoredVariables(config)
       IN  /\ ~parsed.raised
           /\ state_attribute_name' = parsed.san
           /\ monitored_variables' = parsed.vars
           /\ log' = parsed.log
           /\ since_days_ago' = GetMaxSinceDaysAgo(parsed.vars)
           /\ task_data' = EmptyDict
           /\ attributes' = [name \in VariableNames(parsed.vars) |-> PyNone]
           /\ state' = PyNone
    /\ pc' = "idle"
    /\ UNCHANGED <<config, clock, today, stored, api_url, tasks_data, responses>>

\* The unpacking of variable_parts raises ValueError: no sensor is built.
ConstructRaises ==
    /\ pc = "new"
    /\ ProcessMonitoredVariables(config).raised
    /\ pc' = "raised"
    /\ log' = ProcessMonitoredVariables(config).log
    /\ UNCHANGED <<config, state_attribute_name, monitored_variables,
                   since_days_ago, task_data, stored, attributes, state,
                   clock, today, api_url, tasks_data, responses>>

(***************************************************************************)
(* AsanaTaskSensor.update and AsanaTaskApi.get_api_data                    *)
(***************************************************************************)
\* update() is called: get_api_data builds the endpoint and sends the first
\* request.
Update ==
    /\ pc = "idle"
    /\ pc' = "fetching"
    /\ tasks_data' = Data(<< >>)
    /\ api_url' = [since |-> GetSinceDate(clock, since_days_ago), page |-> 1]
    /\ responses' = << >>
    /\ UNCHANGED <<config, state_attribute_name, monitored_variables,
                   since_days_ago, task_data, stored, attributes, state, log,
                   clock, today>>

\* update() after a fetch that returned fetched: _store_task_data,
\* _update_sensor_attributes, _update_sensor_state.
Refresh(fetched) ==
    LET data  == StoreTaskData(task_data, fetched.data)
        attrs == UpdateSensorAttributes(attributes, monitored_variables,
                                        data, clock)
    IN  /\ stored' = fetched.data
        /\ task_data' = data
        /\ today' = clock
        /\ attributes' = attrs
        /\ state' = UpdateSensorState(attrs, state_attribute_name)

\* An update that stores what the fetch had accumulated when it failed.
AbortFetchStoresPartial ==
    /\ tasks_data' = NoData
    /\ Refresh(tasks_data)

\* An update that recomputes the state although the fetch failed.
AbortFetchSetsState ==
    /\ tasks_data' = NoData
    /\ state' = UpdateSensorState(attributes, state_attribute_name)
    /\ UNCHANGED <<task_data, stored, attributes, today>>

\* What a response that is empty or lacks 'data' does to the sensor:
\* get_api_data returns None and update returns.
AbortFetch ==
    /\ tasks_data' = NoData
    /\ UNCHANGED <<task_data, stored, attributes, state, today>>

\* tasks_data = response_data.get('data', []): the page replaces the list.
ExtendReplaces(acc, data) == Data(data)

\* tasks_data.extend(response_data.get('data', []))
Extend(acc, data) == Data(acc.data \o data)

\* The response is empty or lacks 'data'.
RespondBad ==
    /\ pc = "fetching"
    /\ Len(log) + 2 <= MaxLog
    /\ \E r \in BadResponses : responses' = Append(responses, r)
    /\ AbortFetch
    /\ pc' = "idle"
    /\ api_url' = NoUrl
    /\ log' = log \o << LogEntry("Response not expected.", NoString),
                        LogEntry("Error fetching Asana API data.", NoString) >>
    /\ UNCHANGED <<config, state_attribute_name, monitored_variables,
                   since_days_ago, clock>>

\* The response carries data and a next page: the loop requests it.
RespondMore ==
    /\ pc = "fetching"
    /\ api_url.page < MaxPages
    /\ \E data \in Pages :
          /\ responses' = Append(responses, Response("page", data, TRUE))
          /\ tasks_data' = Extend(tasks_data, data)
    /\ api_url' = [api_url EXCEPT !.page = @ + 1]
    /\ UNCHANGED <<pc, config, state_attribute_name, monitored_variables,
                   since_days_ago, task_data, stored, attributes, state, log,
                   clock, today>>

\* The response carries data and no next page: the loop ends, get_api_data
\* returns the list and update goes on to the end.
RespondLast ==
    /\ pc = "fetching"
    /\ \E data \in Pages :
          /\ responses' = Append(responses, Response("page", data, FALSE))
          /\ tasks_data' = Extend(tasks_data, data)
          /\ Refresh(Extend(tasks_data, data))
    /\ pc' = "idle"
    /\ api_url' = NoUrl
    /\ UNCHANGED <<config, state_attribute_name, monitored_variables,
                   since_days_ago, log, clock>>

\* Midnight passes.
Tick ==
    /\ clock + 1 \in Days
    /\ clock' = clock + 1
    /\ UNCHANGED <<pc, config, state_attribute_name, monitored_variables,
                   since_days_ago, task_data, stored, attributes, state, log,
                   today, api_url, tasks_data, responses>>

Next ==
    \/ Construct
    \/ ConstructRaises
    \/ Update
    \/ RespondBad
    \/ RespondMore
    \/ RespondLast
    \/ Tick

Spec == Init /\ [][Next]_vars

(***************************************************************************)
(* The parser alone, on every list of names.                               *)
(***************************************************************************)
ParseInit == Blank(ParseConfigs)

ParseNext == Construct \/ ConstructRaises

ParseSpec == ParseInit /\ [][ParseNext]_vars

(***************************************************************************)
(* Properties.                                                             *)
(***************************************************************************)
\* The sensor exists.
Constructed == pc \in {"idle", "fetching"}

\* Some update has run to its end.
Updated == DOMAIN task_data # {}

\* An update has just returned because its fetch failed.
FetchFailed == pc = "idle" /\ responses # << >> /\ tasks_data = NoData

Rules == { monitored_variables[i] : i \in 1..Len(monitored_variables) }

Range(q) == { q[i] : i \in 1..Len(q) }

Occurrences(q, x) == Cardinality({ i \in 1..Len(q) : q[i] = x })

\* The positions of the stored list whose task is in the given timeframe.
TasksOf(timeframe) ==
    { i \in 1..Len(stored) :
        stored[i].completed = (timeframe = _ASANA_TIMEFRAME_COMPLETED) }

\* The attribute of a rule holds exactly the tasks at the positions idx of
\* the stored list: as many of each display string for a list, their number
\* for a counter.
Holds(rule, idx) ==
    LET v == attributes[rule.name]
    IN  IF rule.sensor_type = _ASANA_SENSOR_TYPE_LIST
        THEN /\ v.kind = "list"
             /\ Len(v.items) = Cardinality(idx)
             /\ \A i \in idx :
                   Occurrences(v.items, TaskName(stored[i])) =
                   Cardinality({ j \in idx :
                                   TaskName(stored[j]) = TaskName(stored[i]) })
        ELSE v = PyInt(Cardinality(idx))

\* C1: an update whose fetch fails leaves the bucket structure, every
\* attribute value and the state as they were before it: no step of an
\* update changes them but the one that ends a successful fetch.
C1_FailedUpdateKeepsSnapshot ==
    [][(pc' = "fetching" \/ (pc = "fetching" /\ tasks_data' = NoData))
          => UNCHANGED <<task_data, attributes, state>>]_vars

\* A fetch failed on its second response, after a page that carried tasks,
\* and the snapshot of an earlier successful update is still there.
C1_Witness ==
    /\ FetchFailed
    /\ Len(responses) = 2
    /\ responses[1].data # << >>
    /\ stored # << >>
    /\ \E r \in Rules : attributes[r.name] \notin {PyNone, PyInt(0), PyList(<< >>)}

\* A name the parser accepts: three tokens, a horizon, a sensor type and a
\* timeframe.
ValidName(raw) ==
    /\ Len(Split(Lower(raw))) = 3
    /\ \/ Contains(Lower(raw), _ASANA_TASK_DATE_ALL)
       \/ \E i \in 1..Len(raw) : DayMatchAt(Lower(raw), i)
    /\ Split(Lower(raw))[1] \in _ASANA_SENSOR_TASK_TYPES
    /\ Split(Lower(raw))[2] \in _ASANA_TIMEFRAMES

\* C2: for every list of names the parsing runs to completion without
\* raising: every invalid name yields no rule and one logged error, and every
\* valid name of the list yields its rule.
C2_ParsingNeverRaises ==
    pc # "new" =>
        /\ pc # "raised"
        /\ \A i \in 1..Len(config) :
              ValidName(config[i]) <=>
                  Lower(config[i]) \in { r.name : r \in Rules }
        /\ Len(log) = Cardinality({ i \in 1..Len(config) : ~ValidName(config[i]) })

\* The name of the first accepted rule, in the order of the list.
FirstAccepted ==
    Lower(config[CHOOSE i \in 1..Len(config) :
                    /\ Lower(config[i]) \in { r.name : r \in Rules }
                    /\ \A j \in 1..(i - 1) :
                          Lower(config[j]) \notin { r.name : r \in Rules }])

\* C3: after a successful update the state is the attribute value of the
\* first rule the parser accepted, in the order of the list, and "OK" when
\* it accepted none.
C3_StateIsFirstAcceptedRule ==
    (Constructed /\ Updated) =>
        IF Rules = {} THEN state = PyStr(<< "O", "K" >>)
        ELSE state = attributes[FirstAccepted]

\* The first name of the list was dropped, the second and third accepted
\* with different values, and the state is the value of the second.
C3_Witness ==
    /\ Constructed /\ Updated
    /\ Len(config) = 3 /\ Len(monitored_variables) = 2
    /\ Lower(config[1]) \notin { r.name : r \in Rules }
    /\ state = attributes[Lower(config[2])]
    /\ state # attributes[Lower(config[3])]
    /\ state # PyInt(0)

\* C4 as stated: when the first update fails and no rule was parsed, the
\* attributes are at their default and the state is "OK".
C4_FailedFirstUpdateStateOK ==
    (FetchFailed /\ ~Updated /\ Rules = {}) =>
        /\ \A name \in DOMAIN attributes : attributes[name] = PyNone
        /\ state = PyStr(<< "O", "K" >>)

\* C4, amended: as long as no update has succeeded, a failed update leaves
\* every attribute at its initial None and the state at its initial None,
\* whether or not a rule was parsed.
C4_FailedFirstUpdateStateNone ==
    (FetchFailed /\ ~Updated) =>
        /\ \A name \in DOMAIN attributes : attributes[name] = PyNone
        /\ state = PyNone

\* The first update failed on an empty response, with no rule parsed.
C4_Witness ==
    /\ FetchFailed /\ ~Updated /\ Rules = {}
    /\ responses = << Response("empty", << >>, FALSE) >>
    /\ state = PyNone

\* C5: after a successful update a past rule with horizon "all" includes
\* every completed task stored under a concrete completion date.
C5_PastAllIncludesEveryDate ==
    (Constructed /\ Updated) =>
        \A r \in Rules :
            (r.timeframe = _ASANA_TIMEFRAME_COMPLETED /\ r.task_date.all) =>
                Holds(r, { i \in TasksOf(_ASANA_TIMEFRAME_COMPLETED) :
                             TaskDate(stored[i]) # _ASANA_TASK_DATE_ALL })

\* C6: after a successful update a future rule with horizon "all" holds
\* every incomplete task, those without due date included, and a future
\* rule with horizon N holds exactly the incomplete tasks whose key is <=
\* the date today + N days; one incomplete task without due date makes
\* counter_future_allday 1.
C6_FutureRules ==
    (Constructed /\ Updated) =>
        /\ \A r \in Rules :
              r.timeframe = _ASANA_TIMEFRAME_NOT_COMPLETED =>
                 IF r.task_date.all
                 THEN Holds(r, TasksOf(_ASANA_TIMEFRAME_NOT_COMPLETED))
                 ELSE Holds(r, { i \in TasksOf(_ASANA_TIMEFRAME_NOT_COMPLETED) :
                                   StrLeq(TaskDate(stored[i]),
                                          Strftime(today + r.task_date.days)) })
        /\ (stored = << TaskD >> /\ N_counter_future_allday \in DOMAIN attributes)
              => attributes[N_counter_future_allday] = PyInt(1)

\* Two incomplete tasks, one without due date: the unbounded counter counts
\* both, the one-day list holds the one that is due by then.
C6_Witness ==
    /\ Constructed /\ Updated
    /\ N_counter_future_allday \in DOMAIN attributes
    /\ N_list_future_1day \in DOMAIN attributes
    /\ attributes[N_counter_future_allday] = PyInt(2)
    /\ attributes[N_list_future_1day] = PyList(<< TaskName(TaskC) >>)

\* C7: after a successful update a past rule with horizon N holds exactly
\* the completed tasks whose completion date, the first 10 characters of
\* the timestamp, is >= the date today - N days; a task marked complete
\* without timestamp is stored under "all" in the past timeframe and is in
\* no such rule.
C7_PastRules ==
    (Constructed /\ Updated) =>
        /\ \A r \in Rules :
              (r.timeframe = _ASANA_TIMEFRAME_COMPLETED /\ ~r.task_date.all) =>
                 Holds(r, { i \in TasksOf(_ASANA_TIMEFRAME_COMPLETED) :
                              /\ stored[i].completed_at # NoString
                              /\ StrGeq(Slice(stored[i].completed_at, 0, 10),
                                        Strftime(today - r.task_date.days)) })
        /\ \A i \in TasksOf(_ASANA_TIMEFRAME_COMPLETED) :
              stored[i].completed_at = NoString =>
                 /\ _ASANA_TASK_DATE_ALL \in DOMAIN task_data[_ASANA_TIMEFRAME_COMPLETED]
                 /\ stored[i].name \in
                       Range(task_data[_ASANA_TIMEFRAME_COMPLETED][_ASANA_TASK_DATE_ALL])

\* A dated and an undated completed task, evaluated on 2024-01-01: the
\* one-day counter counts neither, the two-day list holds the dated one.
C7_Witness ==
    /\ Constructed /\ Updated
    /\ \E i, j \in 1..Len(stored) : stored[i] = TaskA /\ stored[j] = TaskB
    /\ N_counter_past_1day \in DOMAIN attributes
    /\ Lower(N_LIST_PAST_2DAY) \in DOMAIN attributes
    /\ attributes[N_counter_past_1day] = PyInt(0)
    /\ attributes[Lower(N_LIST_PAST_2DAY)] = PyList(<< TaskName(TaskA) >>)

RECURSIVE ConcatData(_)
ConcatData(rs) ==
    IF rs = << >> THEN << >> ELSE Head(rs).data \o ConcatData(Tail(rs))

\* C8: a fetch requests the pages one after another until a response
\* carries no next page; when every response carries data the result is the
\* pages' data in page order, and a response that is empty or lacks 'data'
\* ends the fetch there with no data at all.
C8_FetchPagination ==
    /\ pc = "fetching" =>
          /\ Len(responses) = api_url.page - 1
          /\ \A i \in 1..Len(responses) :
                responses[i].kind = "page" /\ responses[i].next
          /\ tasks_data = Data(ConcatData(responses))
    /\ (pc = "idle" /\ responses # << >>) =>
          /\ \A i \in 1..(Len(responses) - 1) :
                responses[i].kind = "page" /\ responses[i].next
          /\ ~responses[Len(responses)].next
          /\ IF responses[Len(responses)].kind = "page"
             THEN tasks_data = Data(ConcatData(responses))
             ELSE tasks_data = NoData

\* A fetch of two pages, both with tasks, returned the three tasks in page
\* order.
C8_Witness ==
    /\ pc = "idle"
    /\ Len(responses) = 2
    /\ responses[1].data = << TaskA, TaskD >>
    /\ responses[2].data = << TaskC >>
    /\ tasks_data = Data(<< TaskA, TaskD, TaskC >>)

\* C9: the fetch horizon is the largest horizon in days of the accepted
\* past rules with a finite horizon, and 0 when there is none; future rules
\* and past rules with horizon "all" do not extend it.
C9_FetchHorizon ==
    pc = "idle" =>
        LET bounded == { r.task_date.days :
                           r \in { q \in Rules :
                                     /\ q.timeframe = _ASANA_TIMEFRAME_COMPLETED
                                     /\ ~q.task_date.all } }
        IN  /\ since_days_ago \in bounded \cup {0}
            /\ \A d \in bounded : since_days_ago >= d

\* A future rule of 3 days and a past rule of 1 day: the horizon is 1.
C9_Witness ==
    /\ pc = "idle"
    /\ \E r \in Rules : r.timeframe = _ASANA_TIMEFRAME_NOT_COMPLETED
                        /\ r.task_date = DaysInt(3)
    /\ \E r \in Rules : r.timeframe = _ASANA_TIMEFRAME_COMPLETED
                        /\ r.task_date = DaysInt(1)
    /\ since_days_ago = 1

\* The places of a timeframe's buckets: a date key and a position in its
\* list.
Places(timeframe) ==
    UNION { { << k, i >> : i \in 1..Len(task_data[timeframe][k]) } :
            k \in DOMAIN task_data[timeframe] }

\* C10: the buckets and the attributes reflect the task list of the most
\* recent successful fetch alone: each of its tasks is in the buckets
\* exactly once, completed tasks under past and incomplete ones under
\* future, and nothing else is in a bucket or in an attribute.
C10_OnlyLastFetch ==
    (Constructed /\ Updated) =>
        /\ DOMAIN task_data = _ASANA_TIMEFRAMES
        /\ \A t \in _ASANA_TIMEFRAMES :
              /\ Cardinality(Places(t)) = Cardinality(TasksOf(t))
              /\ \A i \in TasksOf(t) :
                    Cardinality({ p \in Places(t) :
                        /\ p[1] = TaskDate(stored[i])
                        /\ task_data[t][p[1]][p[2]] = TaskName(stored[i]) })
                    = Cardinality({ j \in TasksOf(t) :
                        /\ TaskDate(stored[j]) = TaskDate(stored[i])
                        /\ TaskName(stored[j]) = TaskName(stored[i]) })
        /\ \A r \in Rules :
              LET v == attributes[r.name]
              IN  IF r.sensor_type = _ASANA_SENSOR_TYPE_LIST
                  THEN Range(v.items) \subseteq
                          { TaskName(stored[i]) : i \in TasksOf(r.timeframe) }
                  ELSE v.kind = "int" /\ v.n <= Cardinality(TasksOf(r.timeframe))

\* The last fetch brought completed and incomplete tasks, and some rule
\* holds one of them.
C10_Witness ==
    /\ Constructed /\ Updated
    /\ \E i, j \in 1..Len(stored) : stored[i].completed /\ ~stored[j].completed
    /\ \E r \in Rules : attributes[r.name] \notin {PyInt(0), PyList(<< >>)}
====
